---------------------------- MODULE Spec2Model ----------------------------
(***************************************************************************)
(* Model of the repository in four parts, each with its specification:     *)
(*   Spec     : one call of pollForMusic (the polling core)                *)
(*   CallSpec : one call of analyzeScriptAndGeneratePrompts (direct or     *)
(*              through the /api/gemini-analyze handler), of the handler   *)
(*              alone, or of generateMusic                                 *)
(*   RaceSpec : handleAnalyzeScript of part_003, the analysis raced        *)
(*              against its timer                                          *)
(*   AppSpec  : the App of src/App.tsx or of part_002 (handleVideoUpload,  *)
(*              the script textarea, handleAnalyzeScript) with the         *)
(*              SunoGenerationPanel of part_006 it mounts (handleGenerate  *)
(*              and the submission and poll it awaits)                     *)
(* A specification leaves the variables of the other parts at rest.        *)
(*                                                                         *)
(* pollForMusic exists in two variants:                                    *)
(*   "sunoService" : src/services/sunoService.ts  (record-info endpoint,   *)
(*                   status + sunoData[], no consecutive-error counter)    *)
(*   "part_005"    : src/unnamed/part_005         (wav/record-info         *)
(*                   endpoint, successFlag + audioWavUrl, counter)         *)
(*                                                                         *)
(* One call of pollForMusic is a process with two suspension points per    *)
(* loop iteration: the fixed-interval sleep and the status query.  The     *)
(* action Sleep is the timer firing; the action Query is the settling of   *)
(* the fetch together with everything the iteration does until the next    *)
(* suspension point (the rest of the try body, the catch block, the loop   *)
(* increment, the loop test and the throw after the loop).                 *)
(*                                                                         *)
(* Error messages are modelled as sequences of fragments (the fixed text   *)
(* of the template literal followed by the interpolated values), so that   *)
(* String.prototype.includes on a message is membership of a fragment.     *)
(* The non-ASCII message texts of sunoService.ts are written as ASCII      *)
(* glosses; the source line is given next to each.                         *)
(*                                                                         *)
(* part_005 line 150 reads the free identifier `prompt`; in the browser,   *)
(* where this module runs, it is window.prompt and the object literal is   *)
(* built without an exception.  The model follows the browser.             *)
(***************************************************************************)
EXTENDS Integers, Sequences, FiniteSets, TLC

VARIABLES
    variant,            \* which pollForMusic is running
    onProgress,         \* how the caller passed the onProgress argument
    pc,                 \* "sleeping" | "querying" | "resolved" | "rejected"
    attempt,            \* loop variable (attempt / i)
    consecutiveErrors,  \* part_005 only
    lastKnownStatus,    \* part_005 only
    queries,            \* number of status queries issued so far
    result,             \* what the promise settled with
    resp,               \* outcome of the latest status query
    before,             \* class of the outcomes of all earlier queries
    observed            \* status of the latest well-formed response with one

\* one call of analyzeScriptAndGeneratePrompts, of the /api/gemini-analyze
\* handler or of generateMusic
VARIABLES
    op,                 \* which function is called
    scriptText,         \* argument scriptText (field scriptText of the body)
    video,              \* argument videoFile / videoUrl
    key,                \* GEMINI_API_KEY of the environment / argument apiKey
    method,             \* req.method
    at,                 \* where the call is suspended
    parts,              \* the parts of the request to the model
    requests,           \* the network requests issued so far, in order
    upstream,           \* what the model's endpoint answered
    reply,              \* the response of the handler
    settled             \* what the promise of the call settled with

\* handleAnalyzeScript of src/unnamed/part_003 and the state it sets
VARIABLES
    isLoading,
    error,
    analysis,
    runs                \* per invocation: the two promises and the race

pollVars == <<variant, onProgress, pc, attempt, consecutiveErrors,
              lastKnownStatus, queries, result, resp, before, observed>>

callVars == <<op, scriptText, video, key, method, at, parts, requests,
              upstream, reply, settled>>

raceVars == <<isLoading, error, analysis, runs>>

\* the state of one SunoGenerationPanel (part_006 lines 15-21)
VARIABLES
    apiKey,
    isGenerating,
    generatedTasks,
    panelError,         \* the panel's own error state (line 21)
    generations         \* the handleGenerate invocations in progress: what
                        \* each awaits, its task id, the ids it has polled

\* the state of the App of src/App.tsx or part_002 (lines 14-25 / 15-26); its
\* scriptText, isLoading, error and analysis are the variables above, and
\* runs holds its call of analyzeScriptAndGeneratePrompts while it is awaited
VARIABLES
    app,                \* which App: "App.tsx" | "part_002"
    videoUrl,
    videoPreviewUrl,
    videoBlobUrl,
    isUploadingVideo,
    uploads             \* number of handleVideoUpload invocations that
                        \* await upload(...)

panelVars == <<apiKey, isGenerating, generatedTasks, panelError, generations>>

appVars == <<app, videoUrl, videoPreviewUrl, videoBlobUrl, isUploadingVideo,
             uploads>>

vars == <<pollVars, callVars, raceVars, panelVars, appVars>>

-----------------------------------------------------------------------------
(* Program constants *)

MAX_ATTEMPTS_SUNO == 50
MAX_ATTEMPTS_WAV == 60
ERROR_THRESHOLD == 5

(* Bounds of the model *)

MaxTracks == 2

Variants == {"sunoService", "part_005"}
CbModes == {"omitted", "noop", "throws"}

MAX_ATTEMPTS(v) == IF v = "sunoService" THEN MAX_ATTEMPTS_SUNO ELSE MAX_ATTEMPTS_WAV

-----------------------------------------------------------------------------
(* JavaScript values *)

Undefined == "<undefined>"
Null == "<null>"

\* A value used as a condition: undefined, null and "" are falsy.
Truthy(x) == x \notin {Undefined, Null, ""}

\* a || b
OrElse(a, b) == IF Truthy(a) THEN a ELSE b


-----------------------------------------------------------------------------
(* Status strings.  Each endpoint has its vocabulary (TaskInfoResponse     *)
(* .status, WavRecordInfoResponse.successFlag); each variant is also given *)
(* strings outside its vocabulary: statuses of the other endpoint, a       *)
(* lower-case spelling and an unknown failure status.                      *)

SunoVocabulary ==
    {"PENDING", "TEXT_SUCCESS", "FIRST_SUCCESS", "SUCCESS",
     "CREATE_TASK_FAILED", "GENERATE_AUDIO_FAILED",
     "CALLBACK_EXCEPTION", "SENSITIVE_WORD_ERROR"}

WavVocabulary ==
    {"PENDING", "SUCCESS", "CREATE_TASK_FAILED", "GENERATE_WAV_FAILED",
     "CALLBACK_EXCEPTION"}

SunoStatuses == SunoVocabulary \cup {"GENERATE_WAV_FAILED", "UPLOAD_EXCEPTION", "success"}

WavStatuses == WavVocabulary \cup {"SENSITIVE_WORD_ERROR", "TEXT_SUCCESS", "success"}

\* s.includes(frag), for the statuses above and the fragments the code and
\* the specification probe for.
Includes(s, frag) ==
    CASE frag = "FAILED" ->
            s \in {"CREATE_TASK_FAILED", "GENERATE_AUDIO_FAILED", "GENERATE_WAV_FAILED"}
      [] frag = "ERROR" -> s = "SENSITIVE_WORD_ERROR"
      [] frag = "EXCEPTION" -> s \in {"CALLBACK_EXCEPTION", "UPLOAD_EXCEPTION"}
      [] frag = "SUCCESS" -> s \in {"SUCCESS", "TEXT_SUCCESS", "FIRST_SUCCESS"}
      [] OTHER -> FALSE

\* s.toUpperCase()
ToUpperCase(s) == IF s = "success" THEN "SUCCESS" ELSE s

-----------------------------------------------------------------------------
(* Outcomes of one status query.                                           *)
(*   kind "net"  : fetch (or response.json()) rejects                      *)
(*   kind "http" : response.ok is false; text is the body, which           *)
(*                 response.text() delivers                                *)
(*   kind "code" : response.ok, envelope code is not 200; text is msg      *)
(*   kind "ok"   : response.ok, envelope code 200; data is result.data     *)

AudioUrls == {"https://x/a.wav", "https://x/b.wav"}
ErrorTexts == {"bad gateway", "rate limited"}

NoData ==
    [present |-> FALSE, status |-> Undefined, errorMessage |-> Null,
     taskId |-> Undefined, hasResponse |-> FALSE, sunoData |-> <<>>,
     hasSunoData |-> FALSE, audioWavUrl |-> Undefined]

Data(status, errorMessage) ==
    [NoData EXCEPT !.present = TRUE, !.status = status,
                   !.errorMessage = errorMessage, !.taskId = "task-1"]

Track(i, url) == [id |-> i, audioUrl |-> url]

\* sunoData arrays of at most MaxTracks tracks; a track's audioUrl may be
\* missing or empty.
SunoDataArrays ==
    UNION {[1..n -> AudioUrls \cup {"", Undefined}] : n \in 0..MaxTracks}

WithSunoData(d, urls) ==
    [d EXCEPT !.hasResponse = TRUE, !.hasSunoData = TRUE,
              !.sunoData = [i \in 1..Len(urls) |-> Track(i, urls[i])]]

WithAudioWavUrl(d, url) ==
    [d EXCEPT !.hasResponse = TRUE, !.audioWavUrl = url]

Outcome(kind, text, data) == [kind |-> kind, text |-> text, data |-> data]

NoResp == Outcome("none", "", NoData)

TransportOutcomes ==
    {Outcome("net", "", NoData)}
    \cup {Outcome("http", t, NoData) : t \in ErrorTexts}
    \cup {Outcome("code", t, NoData) : t \in ErrorTexts}

\* Statuses with which the provider sends an errorMessage.
FailureLike(s) ==
    Includes(s, "FAILED") \/ Includes(s, "ERROR") \/ Includes(s, "EXCEPTION")

\* Well-formed responses that carry no output.
PlainOutcomes(statuses) ==
    {Outcome("ok", "", NoData)}
    \cup {Outcome("ok", "", Data(s, Null)) : s \in (statuses \cup {Undefined})}
    \cup {Outcome("ok", "", Data(s, "quota exceeded")) :
            s \in {x \in statuses : FailureLike(x)}}

SunoOutcomes ==
    TransportOutcomes \cup PlainOutcomes(SunoStatuses)
    \cup {Outcome("ok", "", WithSunoData(Data("SUCCESS", Null), urls)) :
            urls \in SunoDataArrays}
    \cup {Outcome("ok", "", WithSunoData(Data("success", Null), <<"https://x/a.wav">>))}

WavOutcomes ==
    TransportOutcomes \cup PlainOutcomes(WavStatuses)
    \cup {Outcome("ok", "", WithAudioWavUrl(Data("SUCCESS", Null), u)) :
            u \in AudioUrls \cup {""}}
    \cup {Outcome("ok", "", WithAudioWavUrl(Data("success", Null), "https://x/a.wav"))}

Outcomes(v) == IF v = "sunoService" THEN SunoOutcomes ELSE WavOutcomes

-----------------------------------------------------------------------------
(* Errors and results.  A message is the sequence of the fragments of its  *)
(* template literal.                                                       *)

Message(text, arg) == <<text, arg>>

\* text.includes(probe), for the message texts below and the probes of the
\* two catch blocks
TextIncludes(text, probe) ==
    CASE probe = "generation failed" -> text = "generation failed: "
      [] probe = "Repeated API" ->
            text \in {"Repeated API errors: ", "Repeated API error code: "}
      [] probe = "Suno API task failed" -> text = "Suno API task failed: "
      [] probe = "Generation marked as complete" ->
            text = "Generation marked as complete, but audio URL was missing from the response."
      [] OTHER -> FALSE

\* message.includes(probe)
MessageIncludes(msg, probe) == \E k \in 1..Len(msg) : TextIncludes(msg[k], probe)

\* sunoService.ts:155,185  "shengcheng shibai: ${...}"  (generation failed)
GEN_FAILED == "generation failed: "
\* sunoService.ts:179  "shengcheng wancheng dan meiyou fanhui yinpin shuju"
NO_AUDIO_DATA == "generation complete but no audio data returned"
\* sunoService.ts:204  "shengcheng chaoshi, qing shaohou chongshi"
GEN_TIMEOUT == "generation timed out, retry later"
\* part_005:111
REPEATED_HTTP == "Repeated API errors: "
\* part_005:121
REPEATED_CODE == "Repeated API error code: "
\* part_005:153
MISSING_URL == "Generation marked as complete, but audio URL was missing from the response."
\* part_005:158
TASK_FAILED == "Suno API task failed: "
\* part_005:176
WAV_TIMEOUT == "Timeout waiting for music generation. Last known status: "
\* exceptions raised by the runtime or by the caller's callback
NETWORK_ERROR == "fetch failed"
TYPE_ERROR == "TypeError: cannot read properties of undefined"
CALLBACK_ERROR == "error thrown by onProgress"

NoResult == [kind |-> "none", tasks |-> <<>>, message |-> <<>>]
Tasks(ts) == [kind |-> "tasks", tasks |-> ts, message |-> <<>>]
Error(msg) == [kind |-> "error", tasks |-> <<>>, message |-> msg]

(* What a block of code ends with: it falls through to its end ("next"),   *)
(* executes continue, returns tasks or throws an error.  cerr and last are *)
(* the values of consecutiveErrors and lastKnownStatus at that point.      *)
Flow(ctl, value, cerr, last) ==
    [ctl |-> ctl, value |-> value, cerr |-> cerr, last |-> last]

Next_(cerr, last) == Flow("next", NoResult, cerr, last)
Continue(cerr, last) == Flow("continue", NoResult, cerr, last)
Return(ts, cerr, last) == Flow("return", Tasks(ts), cerr, last)
Throw(msg, cerr, last) == Flow("throw", Error(msg), cerr, last)

-----------------------------------------------------------------------------
(* pollForMusic of src/services/sunoService.ts *)

\* the case labels of the switch that throw (lines 151-155)
SunoSwitchFailure(status) ==
    status \in {"CREATE_TASK_FAILED", "GENERATE_AUDIO_FAILED",
                "CALLBACK_EXCEPTION", "SENSITIVE_WORD_ERROR"}

\* a test after the SUCCESS branch that throws for every status that is not
\* one of the waiting statuses of the switch
SunoLateFailure_AnyOtherStatus(status) ==
    status \notin {"PENDING", "TEXT_SUCCESS", "FIRST_SUCCESS"}

\* the test after the SUCCESS branch (line 184)
SunoLateFailure(status) == Includes(status, "FAILED") \/ Includes(status, "ERROR")

\* the callback reading a field the track does not have (track.audio_url)
SunoTrackToTask_WrongField(track) ==
    [id |-> track.id, status |-> "SUCCESS", audio_url |-> Undefined]

\* the callback of sunoData.map (lines 169-177)
SunoTrackToTask(track) ==
    [id |-> track.id, status |-> "SUCCESS", audio_url |-> track.audioUrl]

\* the condition without its length test: an empty sunoData array passes
SunoHasTracks_EmptyPasses(d) == d.hasResponse /\ d.hasSunoData

\* sunoData && sunoData.length > 0, with sunoData = taskData.response?.sunoData
SunoHasTracks(d) == d.hasResponse /\ d.hasSunoData /\ Len(d.sunoData) > 0

\* the try block with a callback that is handed sunoData and shifts the first
\* track off it before the mapping runs
SunoTry_CallbackTakesTrack(cb, r) ==
    LET d == r.data
        status == d.status
        failed == Message(GEN_FAILED, OrElse(d.errorMessage, status))
        left == IF cb = "omitted" THEN d.sunoData ELSE Tail(d.sunoData)
    IN  CASE r.kind = "net" -> Throw(Message(NETWORK_ERROR, ""), 0, "")
          [] r.kind = "http" -> Continue(0, "")
          [] r.kind = "code" -> Continue(0, "")
          [] OTHER ->
                IF ~d.present THEN Throw(Message(TYPE_ERROR, ""), 0, "")
                ELSE IF SunoSwitchFailure(status) THEN Throw(failed, 0, "")
                ELSE IF cb = "throws" THEN Throw(Message(CALLBACK_ERROR, ""), 0, "")
                ELSE IF status = "SUCCESS" THEN
                    IF SunoHasTracks(d)
                    THEN Return([k \in 1..Len(left) |-> SunoTrackToTask(left[k])], 0, "")
                    ELSE Throw(Message(NO_AUDIO_DATA, ""), 0, "")
                ELSE IF status = Undefined THEN Throw(Message(TYPE_ERROR, ""), 0, "")
                ELSE IF SunoLateFailure(status) THEN Throw(failed, 0, "")
                ELSE Next_(0, "")

\* the try block (lines 103-187), from the settling of fetch
SunoTry(cb, r) ==
    LET d == r.data
        status == d.status
        failed == Message(GEN_FAILED, OrElse(d.errorMessage, status))
    IN  CASE r.kind = "net" -> Throw(Message(NETWORK_ERROR, ""), 0, "")
          [] r.kind = "http" -> Continue(0, "")
          [] r.kind = "code" -> Continue(0, "")
          [] OTHER ->
                IF ~d.present THEN Throw(Message(TYPE_ERROR, ""), 0, "")
                ELSE IF SunoSwitchFailure(status) THEN Throw(failed, 0, "")
                ELSE IF cb = "throws" THEN Throw(Message(CALLBACK_ERROR, ""), 0, "")
                ELSE IF status = "SUCCESS" THEN
                    IF SunoHasTracks(d)
                    THEN Return([k \in 1..Len(d.sunoData) |->
                                    SunoTrackToTask(d.sunoData[k])], 0, "")
                    ELSE Throw(Message(NO_AUDIO_DATA, ""), 0, "")
                ELSE IF status = Undefined THEN Throw(Message(TYPE_ERROR, ""), 0, "")
                ELSE IF SunoLateFailure(status) THEN Throw(failed, 0, "")
                ELSE Next_(0, "")

\* error.message.includes(...) of the catch block (line 191)
SunoIsFatal(msg) == MessageIncludes(msg, "generation failed")

\* the catch block (lines 188-201)
SunoCatch(cb, thrown) ==
    IF SunoIsFatal(thrown.value.message) THEN thrown
    ELSE IF cb = "throws" THEN Throw(Message(CALLBACK_ERROR, ""), 0, "")
    ELSE Next_(0, "")

\* the throw after the loop (line 204)
SunoTimeout(last) == Message(GEN_TIMEOUT, "")

-----------------------------------------------------------------------------
(* pollForMusic of src/unnamed/part_005 *)

\* the comparison written with > : the sixth error escalates
ThresholdReached_Strict(n) == n > ERROR_THRESHOLD

\* consecutiveErrors >= 5 (lines 111, 121)
ThresholdReached(n) == n >= ERROR_THRESHOLD

\* the test of line 157
WavFailure(status) ==
    status \in {"CREATE_TASK_FAILED", "GENERATE_WAV_FAILED", "CALLBACK_EXCEPTION"}

\* the object literal of lines 145-151
WavTask(d) ==
    [id |-> d.taskId, status |-> "SUCCESS", audio_url |-> d.audioWavUrl]

\* data.response?.audioWavUrl as a condition (line 143)
WavHasUrl(d) == d.hasResponse /\ Truthy(d.audioWavUrl)

\* the counter left as it was by a response with envelope code 200
WavResetErrors_Keep(cerr) == cerr

\* consecutiveErrors = 0 (line 125)
WavResetErrors(cerr) == 0

\* the try block (lines 97-162), from the settling of fetch
WavTry(cb, cerr, last, r) ==
    LET d == r.data
        status == ToUpperCase(OrElse(d.status, "UNKNOWN"))
        called == Message(CALLBACK_ERROR, "")
        zero == WavResetErrors(cerr)
    IN  CASE r.kind = "net" -> Throw(Message(NETWORK_ERROR, ""), cerr, last)
          [] r.kind = "http" ->
                IF ThresholdReached(cerr + 1)
                THEN Throw(Message(REPEATED_HTTP, r.text), cerr + 1, last)
                ELSE IF cb = "throws" THEN Throw(called, cerr + 1, last)
                ELSE Continue(cerr + 1, last)
          [] r.kind = "code" ->
                IF ThresholdReached(cerr + 1)
                THEN Throw(Message(REPEATED_CODE, r.text), cerr + 1, last)
                ELSE Continue(cerr + 1, last)
          [] OTHER ->
                IF ~d.present THEN
                    IF cb = "throws" THEN Throw(called, zero, last) ELSE Continue(zero, last)
                ELSE IF cb = "throws" THEN Throw(called, zero, status)
                ELSE IF status = "SUCCESS" THEN
                    IF WavHasUrl(d) THEN Return(<<WavTask(d)>>, zero, status)
                    ELSE Throw(Message(MISSING_URL, ""), zero, status)
                ELSE IF WavFailure(status)
                    THEN Throw(Message(TASK_FAILED, OrElse(d.errorMessage, "Unknown error")),
                               zero, status)
                ELSE Next_(zero, status)

\* the test of the catch block (lines 165-169)
WavIsFatal(msg) ==
    \/ MessageIncludes(msg, "Repeated API")
    \/ MessageIncludes(msg, "Suno API task failed")
    \/ MessageIncludes(msg, "Generation marked as complete")

\* the catch block (lines 163-173)
WavCatch(thrown) ==
    IF WavIsFatal(thrown.value.message) THEN thrown
    ELSE Next_(thrown.cerr, thrown.last)

\* the throw after the loop (line 176)
WavTimeout(last) == Message(WAV_TIMEOUT, last)

-----------------------------------------------------------------------------
(* The analysis calls and generateMusic: values *)

(* Bounds of the model *)

MaxTextLen == 5

(* The text of the model's answer is a sequence of tokens: an opening      *)
(* brace, a closing brace, "w" for a run of prose without braces and "F"   *)
(* for the four members "summary":"s","mood":"m","title":"t",              *)
(* "music_prompt":"p".                                                     *)
Tokens == {"{", "}", "w", "F"}

Texts == UNION {[1..n -> Tokens] : n \in 0..MaxTextLen}

\* text.indexOf(c): the first index, from 0, or -1
IndexOf(text, c) ==
    IF \E i \in 1..Len(text) : text[i] = c
    THEN (CHOOSE i \in 1..Len(text) :
             text[i] = c /\ \A j \in 1..(i - 1) : text[j] # c) - 1
    ELSE -1

\* text.lastIndexOf(c)
LastIndexOf(text, c) ==
    IF \E i \in 1..Len(text) : text[i] = c
    THEN (CHOOSE i \in 1..Len(text) :
             text[i] = c /\ \A j \in (i + 1)..Len(text) : text[j] # c) - 1
    ELSE -1

\* text.slice(from, to)
Slice(text, from, to) == SubSeq(text, from + 1, to)

\* the fields of a ScriptAnalysis read from an object; a member the object
\* does not have reads as undefined
Fields(summary, mood, title, music_prompt) ==
    [summary |-> summary, mood |-> mood, title |-> title,
     music_prompt |-> music_prompt]

NoFields == Fields(Undefined, Undefined, Undefined, Undefined)

FourFields == Fields("s", "m", "t", "p")

\* JSON.parse(text): the texts that are JSON are {} and {F}; ok = FALSE is
\* the SyntaxError
JSONParse(text) ==
    IF text = <<"{", "}">> THEN [ok |-> TRUE, value |-> NoFields]
    ELSE IF text = <<"{", "F", "}">> THEN [ok |-> TRUE, value |-> FourFields]
    ELSE [ok |-> FALSE, value |-> NoFields]

Ops == {"geminiService", "part_004", "gemini-analyze",
        "sunoService.generateMusic", "part_005.generateMusic"}

AnalysisClients == {"geminiService", "part_004"}

MusicCalls == {"sunoService.generateMusic", "part_005.generateMusic"}

Scripts == {"", "   ", "A lone astronaut drifts."}

\* scriptText.trim()
Trim(s) == IF s = "   " THEN "" ELSE s

\* a video with a MIME type, a video whose File.type is "", and no video
Videos == {Undefined, Null, "clip.webm", "clip"}

\* videoFile.type
FileType(v) == IF v = "clip.webm" THEN "video/webm" ELSE ""

Keys == {"", "sk-1"}

Methods == {"POST", "GET"}

\* message texts
\* geminiService.ts:49, part_004:12, part_001:43
\*   "qing zhishao tigong shipin huo juben/miaoshu zhi yi"
VALIDATION == "provide at least one of video and script/description"
\* geminiService.ts:53, part_001:20  "GEMINI_API_KEY wei peizhi"
KEY_MISSING == "GEMINI_API_KEY is not configured"
\* geminiService.ts:135, part_004:29
API_ERROR == "Gemini API Error "
\* geminiService.ts:145, part_001:136
\*   "Gemini fanhui de jieguo zhong meiyou wenben neirong"
NO_TEXT == "the result returned by Gemini has no text content"
\* geminiService.ts:153, part_001:152
\*   "Gemini fanhui de JSON geshi bu hefa, jiexi shibai"
PARSE_FAILED == "the JSON returned by Gemini is not valid, parsing failed"
\* sunoService.ts:55, part_005:38
SUNO_KEY_REQUIRED == "Suno API Key is required."

\* the template literal textPrompt, as the fragments it is made of
TextPrompt(instruction, scriptSegment) ==
    IF Truthy(scriptSegment)
    THEN <<instruction, "Here is the script or description of the video:",
           scriptSegment>>
    ELSE <<instruction,
           "No script was provided. Infer everything from the video only.">>

\* a part with the member inlineData (inline_data) and one with the member text
MediaPart(member, mimeType, data) ==
    [member |-> member, mimeType |-> mimeType, data |-> data, text |-> <<>>]

TextPart(text) == [member |-> "text", mimeType |-> "", data |-> "", text |-> text]

\* what a fetch settles with: kind is "net" (rejected), "http" (not ok),
\* "empty" (ok, no candidates[0].content.parts[0].text), "text" (ok, with
\* that text), "ok" (ok, any other body)
Response(kind, status, text) == [kind |-> kind, status |-> status, text |-> text]

NoResponse == Response("none", 0, <<>>)

ModelResponses ==
    {Response("net", 0, <<>>), Response("http", 503, <<>>),
     Response("empty", 200, <<>>)}
    \cup {Response("text", 200, t) : t \in Texts}

VideoResponses == {Response("net", 0, <<>>), Response("http", 404, <<>>),
                   Response("ok", 200, <<>>)}

\* answers of the generate endpoint: kind "code" is an envelope whose code
\* is not 200; text is the body of a response that is not ok and the msg of
\* an envelope
SunoResponses ==
    {Response("net", 0, <<>>), Response("http", 500, <<"Internal Server Error">>),
     Response("code", 429, <<"quota exceeded">>), Response("ok", 200, <<"success">>)}

\* res.status(status).json(...) of the handler: error and raw are the
\* members of an error body, value is the body of a 200
Reply(status, err, raw, value) ==
    [status |-> status, error |-> err, raw |-> raw, value |-> value]

NoReply == Reply(0, "", <<>>, NoFields)

\* what the promise of a call settles with.  An Error's message is the
\* text, then the interpolated status, body text and its raw member.
Settled(kind, value, taskId, text, status, detail, raw) ==
    [kind |-> kind, value |-> value, taskId |-> taskId, message |-> text,
     status |-> status, detail |-> detail, raw |-> raw]

NotSettled == Settled("none", NoFields, "", "", 0, "", <<>>)

Resolve(value) == Settled("result", value, "", "", 0, "", <<>>)

Reject(text) == Settled("error", NoFields, "", text, 0, "", <<>>)

RejectWith(text, status, detail, raw) ==
    Settled("error", NoFields, "", text, status, detail, raw)

-----------------------------------------------------------------------------
(* analyzeScriptAndGeneratePrompts of src/services/geminiService.ts (the   *)
(* browser calls the model), of src/unnamed/part_004 (the browser calls    *)
(* /api/gemini-analyze) and the handler of src/unnamed/part_001            *)

\* a ?? b
Nullish(a, b) == IF a \in {Undefined, Null} THEN b ELSE a

\* the test without trim(): a script of spaces counts as a script
Blank_NoTrim(s, v) == ~Truthy(s) /\ ~Truthy(v)

\* !scriptText.trim() && !videoFile  (geminiService.ts:48, part_004:11,
\* part_001:40)
Blank(s, v) == ~Truthy(Trim(s)) /\ ~Truthy(v)

\* the test passed by an empty key
KeyMissing_UndefinedOnly(k) == k = Undefined

\* !GEMINI_API_KEY (geminiService.ts:52), !apiKey (part_001:19,
\* sunoService.ts:55, part_005:38)
KeyMissing(k) == ~Truthy(k)

\* geminiService.ts lines 48-54: what the call rejects with before it does
\* anything else, NotSettled when it goes on
DirectEntry(s, v, k) ==
    IF Blank(s, v) THEN Reject(VALIDATION)
    ELSE IF KeyMissing(k) THEN Reject(KEY_MISSING)
    ELSE NotSettled

\* geminiService.ts lines 57-96
DirectParts(s, v) ==
    (IF Truthy(v)
     THEN <<MediaPart("inlineData", OrElse(FileType(v), "video/mp4"), v)>>
     ELSE <<>>)
    \o <<TextPart(TextPrompt(
            "You are a professional film score composer. ... Output JSON with the following fields: ...",
            Trim(s)))>>

\* geminiService.ts lines 123-154, from the settling of fetch
DirectReceive(r) ==
    CASE r.kind = "net" -> Reject(NETWORK_ERROR)
      [] r.kind = "http" -> RejectWith(API_ERROR, r.status, "", <<>>)
      [] r.kind = "empty" -> Reject(NO_TEXT)
      [] OTHER ->
            IF r.text = <<>> THEN Reject(NO_TEXT)
            ELSE IF JSONParse(r.text).ok THEN Resolve(JSONParse(r.text).value)
            ELSE Reject(PARSE_FAILED)

\* part_004 lines 11-13
ProxyEntry(s, v) == IF Blank(s, v) THEN Reject(VALIDATION) ELSE NotSettled

\* part_004 lines 26-34, from the response of the handler
ProxyReceive(rep) ==
    IF rep.status \notin 200..299
    THEN RejectWith(API_ERROR, rep.status, rep.error, rep.raw)
    ELSE Resolve(rep.value)

\* part_001 lines 13-44: the response sent before anything is fetched,
\* NoReply when the handler goes on
HandlerEntry(m, k, s, v) ==
    IF m # "POST" THEN Reply(405, "Method not allowed", <<>>, NoFields)
    ELSE IF KeyMissing(k) THEN Reply(500, KEY_MISSING, <<>>, NoFields)
    ELSE IF Blank(s, v) THEN Reply(400, VALIDATION, <<>>, NoFields)
    ELSE NoReply

\* part_001 lines 50-58, 158-163, from the settling of fetch(videoUrl)
HandlerVideo(r) ==
    CASE r.kind = "net" -> Reply(500, NETWORK_ERROR, <<>>, NoFields)
      [] r.kind = "http" -> Reply(502, "downloading the video failed", <<>>, NoFields)
      [] OTHER -> NoReply

\* part_001 lines 46-94
HandlerParts(s, v) ==
    (IF Truthy(v) THEN <<MediaPart("inline_data", "video/mp4", v)>> ELSE <<>>)
    \o <<TextPart(TextPrompt(
            "You are a professional film score composer. ... Return a JSON object with the following fields: ...",
            Trim(OrElse(s, ""))))>>

\* the text given to the parser whole
JsonSlice_Whole(text) == text

\* part_001 lines 140-145
JsonSlice(text) ==
    LET firstBrace == IndexOf(text, "{")
        lastBrace == LastIndexOf(text, "}")
    IN  IF firstBrace # -1 /\ lastBrace # -1 /\ lastBrace > firstBrace
        THEN Slice(text, firstBrace, lastBrace + 1)
        ELSE text

\* part_001 lines 105-163, from the settling of the fetch of the model
HandlerReceive(r) ==
    CASE r.kind = "net" -> Reply(500, NETWORK_ERROR, <<>>, NoFields)
      [] r.kind = "http" -> Reply(r.status, "Gemini upstream error", <<>>, NoFields)
      [] r.kind = "empty" -> Reply(500, NO_TEXT, <<>>, NoFields)
      [] OTHER ->
            IF r.text = <<>> THEN Reply(500, NO_TEXT, <<>>, NoFields)
            ELSE IF JSONParse(JsonSlice(r.text)).ok
                THEN Reply(200, "", <<>>, JSONParse(JsonSlice(r.text)).value)
            ELSE Reply(500, PARSE_FAILED, r.text, NoFields)

(* generateMusic of src/services/sunoService.ts and src/unnamed/part_005 *)

\* sunoService.ts:55, part_005:38
MusicEntry(k) == IF KeyMissing(k) THEN Reject(SUNO_KEY_REQUIRED) ELSE NotSettled

\* the test of result.code left out: every response that is ok returns
\* result.data.taskId
MusicReceive_NoCodeTest(o, r) ==
    CASE r.kind = "net" -> Reject(NETWORK_ERROR)
      [] r.kind = "http" ->
            RejectWith("Suno API Request Failed", r.status, "", r.text)
      [] OTHER -> Settled("result", NoFields, "task-1", "", 0, "", <<>>)

\* sunoService.ts lines 66-86, part_005 lines 49-74, from the settling of
\* fetch
MusicReceive(o, r) ==
    CASE r.kind = "net" ->
            IF o = "part_005.generateMusic"
            THEN RejectWith("Network error during generation request: ", 0,
                            NETWORK_ERROR, <<>>)
            ELSE Reject(NETWORK_ERROR)
      [] r.kind = "http" ->
            RejectWith("Suno API Request Failed", r.status, "", r.text)
      [] r.kind = "code" -> RejectWith("Suno API Error", r.status, "", r.text)
      [] OTHER -> Settled("result", NoFields, "task-1", "", 0, "", <<>>)

\* no call is in progress
CallIdle ==
    /\ op = "none"
    /\ scriptText = ""
    /\ video = Undefined
    /\ key = ""
    /\ method = "POST"
    /\ at = "done"
    /\ parts = <<>>
    /\ requests = <<>>
    /\ upstream = NoResponse
    /\ reply = NoReply
    /\ settled = NotSettled

-----------------------------------------------------------------------------
(* The loop of both variants *)

\* a while loop whose continue skips the increment
Advance_SkipOnContinue(i, ctl) == IF ctl = "continue" THEN i ELSE i + 1

\* the loop increment (attempt++ / i++), reached from the end of the body,
\* from the end of the catch block and from continue
Advance(i, ctl) == i + 1

\* a loop whose continue jumps past the sleep to the next fetch
Resume_QueryOnContinue(ctl) == IF ctl = "continue" THEN "querying" ELSE "sleeping"

\* where the loop suspends next: the first statement of the loop body is the
\* interval sleep, however the previous iteration ended
Resume(ctl) == "sleeping"

\* One iteration from the settling of fetch to the next suspension point
\* or to the settling of the promise.
Iterate(v, cb, i, cerr, last, r) ==
    LET body == IF v = "sunoService" THEN SunoTry(cb, r) ELSE WavTry(cb, cerr, last, r)
        after == IF body.ctl # "throw" THEN body
                 ELSE IF v = "sunoService" THEN SunoCatch(cb, body)
                 ELSE WavCatch(body)
        timeout == IF v = "sunoService" THEN SunoTimeout(after.last)
                   ELSE WavTimeout(after.last)
        st == [pc |-> Resume(after.ctl), attempt |-> i, consecutiveErrors |-> after.cerr,
               lastKnownStatus |-> after.last, result |-> NoResult]
    IN  CASE after.ctl = "return" ->
                [st EXCEPT !.pc = "resolved", !.result = after.value]
          [] after.ctl = "throw" ->
                [st EXCEPT !.pc = "rejected", !.result = after.value]
          [] OTHER ->
                IF Advance(i, after.ctl) < MAX_ATTEMPTS(v)
                THEN [st EXCEPT !.attempt = Advance(i, after.ctl)]
                ELSE [st EXCEPT !.attempt = Advance(i, after.ctl),
                                !.pc = "rejected", !.result = Error(timeout)]

(* Classes of outcomes, for the history variable `before`. *)
TransientError(r) == r.kind \in {"http", "code"}

Waiting(r) == /\ r.kind = "ok"
              /\ r.data.present
              /\ r.data.status \in {"PENDING", "TEXT_SUCCESS", "FIRST_SUCCESS"}

OutcomeClass(r) ==
    IF TransientError(r) THEN "errors"
    ELSE IF Waiting(r) THEN "waiting"
    ELSE IF r.kind = "net" THEN "network"
    ELSE "other"

Extend(b, r) ==
    IF r.kind = "none" THEN "none"
    ELSE IF b = "none" THEN OutcomeClass(r)
    ELSE IF b = OutcomeClass(r) THEN b
    ELSE "other"

\* the status a well-formed response shows, if it shows one
HasStatus(r) == r.kind = "ok" /\ r.data.present /\ r.data.status # Undefined

Observe(o, r) == IF HasStatus(r) THEN r.data.status ELSE o

Terminal == {"resolved", "rejected"}

\* no poll is in progress
PollIdle ==
    /\ variant = "sunoService"
    /\ onProgress = "omitted"
    /\ pc = "sleeping"
    /\ attempt = 0
    /\ consecutiveErrors = 0
    /\ lastKnownStatus = ""
    /\ queries = 0
    /\ result = NoResult
    /\ resp = NoResp
    /\ before = "none"
    /\ observed = Undefined

\* useState<ScriptAnalysis | null>: null, or the value given to setAnalysis
Analysis(isSet, value) == [set |-> isSet, value |-> value]

NoAnalysis == Analysis(FALSE, NoFields)

\* the App as mounted (part_003 lines 16-18), no invocation made
RaceIdle ==
    /\ isLoading = FALSE
    /\ error = <<>>
    /\ analysis = NoAnalysis
    /\ runs = <<>>

\* the panel as mounted without a key in the environment (part_006 lines
\* 15-21), no invocation made
PanelIdle ==
    /\ apiKey = ""
    /\ isGenerating = FALSE
    /\ generatedTasks = <<>>
    /\ panelError = <<>>
    /\ generations = <<>>

\* the App as mounted (App.tsx lines 14-25), no invocation made
AppIdle ==
    /\ app = "App.tsx"
    /\ videoUrl = Null
    /\ videoPreviewUrl = Null
    /\ videoBlobUrl = Null
    /\ isUploadingVideo = FALSE
    /\ uploads = 0

Init ==
    /\ variant \in Variants
    /\ onProgress \in CbModes
    /\ pc = "sleeping"
    /\ attempt = 0
    /\ consecutiveErrors = 0
    /\ lastKnownStatus = IF variant = "part_005" THEN "Initializing" ELSE ""
    /\ queries = 0
    /\ result = NoResult
    /\ resp = NoResp
    /\ before = "none"
    /\ observed = Undefined
    /\ CallIdle
    /\ RaceIdle
    /\ PanelIdle
    /\ AppIdle

\* await new Promise(resolve => setTimeout(resolve, INTERVAL)) resolves and
\* fetch is called
Sleep ==
    /\ pc = "sleeping"
    /\ pc' = "querying"
    /\ queries' = queries + 1
    /\ UNCHANGED <<variant, onProgress, attempt, consecutiveErrors,
                   lastKnownStatus, result, resp, before, observed>>
    /\ UNCHANGED <<callVars, raceVars, panelVars, appVars>>

\* the status query settles with outcome r and the iteration runs on
Query ==
    /\ pc = "querying"
    /\ \E r \in Outcomes(variant) :
        LET st == Iterate(variant, onProgress, attempt, consecutiveErrors,
                          lastKnownStatus, r)
        IN  /\ pc' = st.pc
            /\ attempt' = st.attempt
            /\ consecutiveErrors' = st.consecutiveErrors
            /\ lastKnownStatus' = st.lastKnownStatus
            /\ result' = st.result
            /\ resp' = r
            /\ before' = Extend(before, resp)
            /\ observed' = Observe(observed, r)
    /\ UNCHANGED <<variant, onProgress, queries>>
    /\ UNCHANGED <<callVars, raceVars, panelVars, appVars>>

Next == Sleep \/ Query

Spec == Init /\ [][Next]_vars

-----------------------------------------------------------------------------
(* One call of an analysis function, of the handler or of generateMusic.   *)
(* The actions are the stretches of code between two awaits.               *)

CallInit ==
    /\ PollIdle
    /\ RaceIdle
    /\ PanelIdle
    /\ AppIdle
    /\ op \in Ops
    /\ scriptText \in (IF op \in MusicCalls THEN {""} ELSE Scripts)
    /\ video \in (IF op \in MusicCalls THEN {Undefined} ELSE Videos)
    /\ key \in Keys
    /\ method \in (IF op = "gemini-analyze" THEN Methods ELSE {"POST"})
    /\ at = IF op = "gemini-analyze" THEN "atHandler" ELSE "entry"
    /\ parts = <<>>
    /\ requests = <<>>
    /\ upstream = NoResponse
    /\ reply = NoReply
    /\ settled = NotSettled

\* where the handler's response goes: to the waiting part_004, or out
Replied == IF op = "part_004" THEN "replied" ELSE "done"

\* the videoUrl the handler reads from the body: part_004 sends
\* videoUrl ?? null (line 22)
BodyVideoUrl == IF op = "part_004" THEN Nullish(video, Null) ELSE video

\* the function is called and runs to its first await (or throws)
Invoke ==
    /\ at = "entry"
    /\ LET e == CASE op = "geminiService" -> DirectEntry(scriptText, video, key)
                  [] op = "part_004" -> ProxyEntry(scriptText, video)
                  [] OTHER -> MusicEntry(key)
       IN  IF e # NotSettled
           THEN /\ settled' = e
                /\ at' = "done"
                /\ UNCHANGED <<parts, requests>>
           ELSE /\ settled' = settled
                /\ CASE op = "geminiService" /\ Truthy(video) ->
                            /\ at' = "readingFile"
                            /\ UNCHANGED <<parts, requests>>
                     [] op = "geminiService" /\ ~Truthy(video) ->
                            /\ at' = "awaitModel"
                            /\ parts' = DirectParts(scriptText, video)
                            /\ requests' = Append(requests, "model")
                     [] op = "part_004" ->
                            /\ at' = "atHandler"
                            /\ requests' = Append(requests, "gemini-analyze")
                            /\ parts' = parts
                     [] OTHER ->
                            /\ at' = "awaitSuno"
                            /\ requests' = Append(requests, "generate")
                            /\ parts' = parts
    /\ UNCHANGED <<op, scriptText, video, key, method, upstream, reply>>
    /\ UNCHANGED <<pollVars, raceVars, panelVars, appVars>>

\* geminiService.ts: fileToBase64 settles (lines 21-35, 61) and the request
\* is built and sent (lines 65-130)
ReadFile ==
    /\ at = "readingFile"
    /\ \E ok \in BOOLEAN :
        IF ok
        THEN /\ at' = "awaitModel"
             /\ parts' = DirectParts(scriptText, video)
             /\ requests' = Append(requests, "model")
             /\ settled' = settled
        ELSE /\ at' = "done"
             /\ settled' = Reject("File read error")
             /\ UNCHANGED <<parts, requests>>
    /\ UNCHANGED <<op, scriptText, video, key, method, upstream, reply>>
    /\ UNCHANGED <<pollVars, raceVars, panelVars, appVars>>

\* part_004: the fetch of /api/gemini-analyze rejects
ProxyUnreachable ==
    /\ at = "atHandler"
    /\ op = "part_004"
    /\ at' = "done"
    /\ settled' = Reject(NETWORK_ERROR)
    /\ UNCHANGED <<op, scriptText, video, key, method, parts, requests,
                   upstream, reply>>
    /\ UNCHANGED <<pollVars, raceVars, panelVars, appVars>>

\* the handler of part_001 is entered and runs to its first await (lines
\* 13-50, or 13-112 without a video) or to an early response
Handle ==
    /\ at = "atHandler"
    /\ LET e == HandlerEntry(method, key, scriptText, BodyVideoUrl)
       IN  IF e # NoReply
           THEN /\ reply' = e
                /\ at' = Replied
                /\ UNCHANGED <<parts, requests>>
           ELSE /\ reply' = reply
                /\ IF Truthy(BodyVideoUrl)
                   THEN /\ at' = "fetchingVideo"
                        /\ requests' = Append(requests, "video")
                        /\ parts' = parts
                   ELSE /\ at' = "awaitModel"
                        /\ parts' = HandlerParts(scriptText, BodyVideoUrl)
                        /\ requests' = Append(requests, "model")
    /\ UNCHANGED <<op, scriptText, video, key, method, upstream, settled>>
    /\ UNCHANGED <<pollVars, raceVars, panelVars, appVars>>

\* part_001: fetch(videoUrl) settles (lines 50-112)
VideoResponds ==
    /\ at = "fetchingVideo"
    /\ \E r \in VideoResponses :
        LET e == HandlerVideo(r)
        IN  IF e # NoReply
            THEN /\ reply' = e
                 /\ at' = Replied
                 /\ UNCHANGED <<parts, requests>>
            ELSE /\ reply' = reply
                 /\ at' = "awaitModel"
                 /\ parts' = HandlerParts(scriptText, BodyVideoUrl)
                 /\ requests' = Append(requests, "model")
    /\ UNCHANGED <<op, scriptText, video, key, method, upstream, settled>>
    /\ UNCHANGED <<pollVars, raceVars, panelVars, appVars>>

\* the fetch of the model's endpoint settles
ModelResponds ==
    /\ at = "awaitModel"
    /\ \E r \in ModelResponses :
        /\ upstream' = r
        /\ IF op = "geminiService"
           THEN /\ settled' = DirectReceive(r)
                /\ at' = "done"
                /\ reply' = reply
           ELSE /\ reply' = HandlerReceive(r)
                /\ at' = Replied
                /\ settled' = settled
    /\ UNCHANGED <<op, scriptText, video, key, method, parts, requests>>
    /\ UNCHANGED <<pollVars, raceVars, panelVars, appVars>>

\* part_004: the response of the handler arrives (lines 26-34)
ProxyResponds ==
    /\ at = "replied"
    /\ at' = "done"
    /\ settled' = ProxyReceive(reply)
    /\ UNCHANGED <<op, scriptText, video, key, method, parts, requests,
                   upstream, reply>>
    /\ UNCHANGED <<pollVars, raceVars, panelVars, appVars>>

\* generateMusic: the fetch of the generate endpoint settles
SunoResponds ==
    /\ at = "awaitSuno"
    /\ \E r \in SunoResponses :
        /\ at' = "done"
        /\ settled' = MusicReceive(op, r)
        /\ upstream' = r
    /\ UNCHANGED <<op, scriptText, video, key, method, parts, requests, reply>>
    /\ UNCHANGED <<pollVars, raceVars, panelVars, appVars>>

CallNext ==
    \/ Invoke
    \/ ReadFile
    \/ ProxyUnreachable
    \/ Handle
    \/ VideoResponds
    \/ ModelResponds
    \/ ProxyResponds
    \/ SunoResponds

CallSpec == CallInit /\ [][CallNext]_vars

-----------------------------------------------------------------------------
(* handleAnalyzeScript of src/unnamed/part_003 (lines 40-84): the analysis *)
(* raced against a timer.  An invocation is suspended at the await of      *)
(* Promise.race; the reactions of a promise that settles run before any    *)
(* other task, so the settling and what the handler does on it are one     *)
(* action.                                                                 *)

(* Bounds of the model *)

MaxRuns == 2

\* part_003:59
ANALYSIS_TIMEOUT == "Gemini analysis timeout"
\* part_003:77
AN_ERROR_OCCURRED == "An error occurred: "

\* what analyzeScriptAndGeneratePrompts can settle with
AnalysisOutcomes ==
    {Resolve(FourFields), Resolve(NoFields), Reject(PARSE_FAILED),
     Reject(NETWORK_ERROR)}

\* the promises of one invocation (lines 53-60, 68)
Run(analysisPromise, timeoutPromise, race) ==
    [analysisPromise |-> analysisPromise, timeoutPromise |-> timeoutPromise,
     race |-> race]

\* reactions attached to each promise on its own: every settling is acted on
Awaited_EachPromise(run) == TRUE

\* Promise.race([analysisPromise, timeoutPromise]) is still pending, so the
\* handler is still suspended at line 68
Awaited(run) == run.race = "pending"

\* a handler without its finally block
Finally_FlagKept(flag) == flag

\* the busy flag after a finally block: setIsLoading(false) (part_003 lines
\* 81-83, App.tsx lines 103-105), setIsGenerating(false) (part_006 lines
\* 79-81), setIsUploadingVideo(false) (part_002 lines 64-66)
Finally(flag) == FALSE

RaceInit ==
    /\ PollIdle
    /\ RaceIdle
    /\ PanelIdle
    /\ AppIdle
    /\ op = "none"
    /\ scriptText = ""
    /\ video = Null
    /\ key = ""
    /\ method = "POST"
    /\ at = "done"
    /\ parts = <<>>
    /\ requests = <<>>
    /\ upstream = NoResponse
    /\ reply = NoReply
    /\ settled = NotSettled

\* the button (disabled while isLoading, line 200) is clicked: lines 40-68
HandleAnalyzeScript ==
    /\ ~isLoading
    /\ Len(runs) < MaxRuns
    /\ IF Blank(scriptText, video)
       THEN /\ error' = <<"Please upload a video or provide a script/description.">>
            /\ UNCHANGED <<isLoading, analysis, runs>>
       ELSE /\ isLoading' = TRUE
            /\ error' = <<>>
            /\ analysis' = NoAnalysis
            /\ runs' = Append(runs, Run("pending", "pending", "pending"))
    /\ UNCHANGED <<pollVars, callVars, panelVars, appVars>>

\* the textarea is edited (line 168) or a video is chosen (lines 23-27)
EditInputs ==
    /\ \E s \in Scripts, v \in Videos :
        /\ <<s, v>> # <<scriptText, video>>
        /\ scriptText' = s
        /\ video' = v
    /\ UNCHANGED <<op, key, method, at, parts, requests, upstream, reply,
                   settled>>
    /\ UNCHANGED <<pollVars, raceVars, panelVars, appVars>>

\* analysisPromise of invocation i settles; lines 73-83 run if the handler
\* was still waiting
AnalysisSettles ==
    /\ \E i \in 1..Len(runs), o \in AnalysisOutcomes :
        /\ runs[i].analysisPromise = "pending"
        /\ runs' = [runs EXCEPT ![i] =
                      Run(IF o.kind = "result" THEN "fulfilled" ELSE "rejected",
                          runs[i].timeoutPromise, "settled")]
        /\ IF Awaited(runs[i])
           THEN /\ isLoading' = Finally(isLoading)
                /\ IF o.kind = "result"
                   THEN /\ analysis' = Analysis(TRUE, o.value)
                        /\ error' = error
                   ELSE /\ error' = <<AN_ERROR_OCCURRED, o.message>>
                        /\ analysis' = analysis
           ELSE UNCHANGED <<isLoading, error, analysis>>
    /\ UNCHANGED <<pollVars, callVars, panelVars, appVars>>

\* the timer of invocation i fires (line 59); lines 74-83 run if the
\* handler was still waiting
TimerFires ==
    /\ \E i \in 1..Len(runs) :
        /\ runs[i].timeoutPromise = "pending"
        /\ runs' = [runs EXCEPT ![i] =
                      Run(runs[i].analysisPromise, "rejected", "settled")]
        /\ IF Awaited(runs[i])
           THEN /\ isLoading' = Finally(isLoading)
                /\ error' = <<AN_ERROR_OCCURRED, ANALYSIS_TIMEOUT>>
                /\ analysis' = analysis
           ELSE UNCHANGED <<isLoading, error, analysis>>
    /\ UNCHANGED <<pollVars, callVars, panelVars, appVars>>

RaceNext == HandleAnalyzeScript \/ EditInputs \/ AnalysisSettles \/ TimerFires

RaceSpec == RaceInit /\ [][RaceNext]_vars

-----------------------------------------------------------------------------
(* SunoGenerationPanel of src/unnamed/part_006 (lines 14-187; the copy of  *)
(* lines 203-430 has the same handleGenerate and button).  The panel is    *)
(* mounted by the App while isLoading or analysis is set (App.tsx lines    *)
(* 191-197) and renders its form when the analysis is over and has left a  *)
(* prompt (lines 35-44).  handleGenerate is suspended at await             *)
(* generateMusic and, in pollForMusic, at the sleeps and status queries;   *)
(* each settling and the code that runs on it are one action.  The status  *)
(* line (statusMessage) is left out.                                       *)

\* the invocations in progress when invocation i has ended
Without(seq, i) == [k \in 1..(Len(seq) - 1) |-> IF k < i THEN seq[k] ELSE seq[k + 1]]

\* a button whose disabled attribute tests the key only
ButtonDisabled_KeyOnly(generating, k) == ~Truthy(k)

\* disabled={isGenerating || !apiKey} (line 172)
ButtonDisabled(generating, k) == generating \/ ~Truthy(k)

\* a handler without the try block: it goes on to poll whatever
\* generateMusic settled with
Submitted_Always(out) == TRUE

\* await generateMusic(...) returns a task id (line 58) instead of throwing
\* into the catch block (line 76)
Submitted(out) == out.kind = "result"

\* the key input, rendered when the environment has no key (lines 96-107)
SetApiKey ==
    /\ ~isLoading /\ analysis = Analysis(TRUE, FourFields)
    /\ ~Truthy(key)
    /\ \E k \in Keys :
        /\ k # apiKey
        /\ apiKey' = k
    /\ UNCHANGED <<isGenerating, generatedTasks, panelError, generations>>
    /\ UNCHANGED <<pollVars, callVars, raceVars, appVars>>

\* the Generate button, rendered while no tasks are shown (lines 136, 170),
\* is clicked: lines 46-58
HandleGenerate ==
    /\ ~isLoading /\ analysis = Analysis(TRUE, FourFields)
    /\ Len(generatedTasks) = 0
    /\ ~ButtonDisabled(isGenerating, apiKey)
    /\ IF ~Truthy(apiKey)
       THEN /\ panelError' = <<"Please enter a Suno API Key.">>
            /\ UNCHANGED <<isGenerating, generatedTasks, generations>>
       ELSE /\ panelError' = <<>>
            /\ isGenerating' = TRUE
            /\ generatedTasks' = <<>>
            /\ generations' = Append(generations,
                                [stage |-> "submitting", taskId |-> "", polled |-> {}])
    /\ UNCHANGED apiKey
    /\ UNCHANGED <<pollVars, callVars, raceVars, appVars>>

\* generateMusic of generation i settles: lines 58-69, or 76-81
SubmissionSettles ==
    /\ \E i \in 1..Len(generations), r \in SunoResponses :
        LET out == MusicReceive("sunoService.generateMusic", r)
        IN  /\ generations[i].stage = "submitting"
            /\ IF Submitted(out)
               THEN /\ generations' = [generations EXCEPT ![i] =
                          [stage |-> "polling", taskId |-> out.taskId, polled |-> {}]]
                    /\ UNCHANGED <<panelError, isGenerating>>
               ELSE /\ generations' = Without(generations, i)
                    /\ panelError' = <<OrElse(out.message,
                          "Failed to generate music. Please check console for details.")>>
                    /\ isGenerating' = Finally(isGenerating)
    /\ UNCHANGED <<apiKey, generatedTasks>>
    /\ UNCHANGED <<pollVars, callVars, raceVars, appVars>>

\* pollForMusic(taskId, ...) of generation i issues its first status query;
\* the later ones ask for the same id and change nothing here
PollQuery ==
    /\ \E i \in 1..Len(generations) :
        /\ generations[i].stage = "polling"
        /\ generations[i].taskId \notin generations[i].polled
        /\ generations' = [generations EXCEPT ![i].polled =
                              @ \cup {generations[i].taskId}]
    /\ UNCHANGED <<apiKey, isGenerating, generatedTasks, panelError>>
    /\ UNCHANGED <<pollVars, callVars, raceVars, appVars>>

\* pollForMusic of generation i settles after a query, with tasks, with the
\* failure error or with the timeout: lines 73-74, or 76-81
PollSettles ==
    /\ \E i \in 1..Len(generations),
          o \in {Tasks(<<SunoTrackToTask(Track(1, "https://x/a.wav"))>>),
                 Error(Message(GEN_FAILED, "quota exceeded")),
                 Error(SunoTimeout(""))} :
        /\ generations[i].stage = "polling"
        /\ generations[i].polled # {}
        /\ generations' = Without(generations, i)
        /\ IF o.kind = "tasks"
           THEN generatedTasks' = o.tasks /\ panelError' = panelError
           ELSE generatedTasks' = generatedTasks /\ panelError' = o.message
        /\ isGenerating' = Finally(isGenerating)
    /\ UNCHANGED apiKey
    /\ UNCHANGED <<pollVars, callVars, raceVars, appVars>>

\* Start Over, rendered while tasks are shown (lines 142-147)
StartOver ==
    /\ ~isLoading /\ analysis = Analysis(TRUE, FourFields)
    /\ Len(generatedTasks) > 0
    /\ generatedTasks' = <<>>
    /\ UNCHANGED <<apiKey, isGenerating, panelError, generations>>
    /\ UNCHANGED <<pollVars, callVars, raceVars, appVars>>

PanelNext ==
    \/ SetApiKey
    \/ HandleGenerate
    \/ SubmissionSettles
    \/ PollQuery
    \/ PollSettles
    \/ StartOver

-----------------------------------------------------------------------------
(* The App of src/App.tsx and of src/unnamed/part_002: handleVideoUpload,  *)
(* the script textarea and handleAnalyzeScript.  The FileUpload component  *)
(* is given handleVideoUpload without a disabled flag (App.tsx line 126,   *)
(* part_002 lines 148-152), so a second upload can start while the first   *)
(* is in flight.  A handler is suspended at await upload(...) or at await  *)
(* analyzeScriptAndGeneratePrompts(...); each settling and the code that   *)
(* runs on it are one action.  The App mounts one SunoGenerationPanel      *)
(* while isLoading or analysis is set (App.tsx lines 191-197, part_002     *)
(* lines 232-238); a failed analysis leaves both unset, the panel is       *)
(* unmounted and its state and whatever its handlers still await are gone. *)

(* Program constants *)

MAX_VIDEO_SIZE_MB == 20

(* Bounds of the model *)

MaxUploads == 2

\* the success branch that sets videoUrl only
SetOnSuccess_UrlOnly(a, url, st) == [st EXCEPT !.videoUrl = url]

\* the state setters after await upload(...): App.tsx line 53, part_002
\* lines 55-57; st is the three URLs before
SetOnSuccess(a, url, st) ==
    IF a = "part_002"
    THEN [videoUrl |-> url, videoPreviewUrl |-> url, videoBlobUrl |-> url]
    ELSE [st EXCEPT !.videoUrl = url]

AppInit ==
    /\ PollIdle
    /\ RaceIdle
    /\ op = "none"
    /\ scriptText = ""
    /\ video = Undefined
    /\ key \in {Undefined, "sk-1"}          \* process.env.SUNO_API_KEY
    /\ method = "POST"
    /\ at = "done"
    /\ parts = <<>>
    /\ requests = <<>>
    /\ upstream = NoResponse
    /\ reply = NoReply
    /\ settled = NotSettled
    /\ apiKey = OrElse(key, "")
    /\ isGenerating = FALSE
    /\ generatedTasks = <<>>
    /\ panelError = <<>>
    /\ generations = <<>>
    /\ app \in {"App.tsx", "part_002"}
    /\ videoUrl = Null
    /\ videoPreviewUrl = Null
    /\ videoBlobUrl = Null
    /\ isUploadingVideo = FALSE
    /\ uploads = 0

\* a file of sizeMb megabytes is chosen: App.tsx lines 27-45, part_002
\* lines 31-47
HandleVideoUpload ==
    /\ \E sizeMb \in {MAX_VIDEO_SIZE_MB, MAX_VIDEO_SIZE_MB + 1} :
        IF sizeMb > MAX_VIDEO_SIZE_MB
        THEN /\ error' = <<"The video is too large">>
             /\ UNCHANGED <<isUploadingVideo, uploads>>
        ELSE /\ uploads < MaxUploads
             /\ error' = <<>>
             /\ isUploadingVideo' = TRUE
             /\ uploads' = uploads + 1
    /\ UNCHANGED <<app, videoUrl, videoPreviewUrl, videoBlobUrl>>
    /\ UNCHANGED <<isLoading, analysis, runs>>
    /\ UNCHANGED <<pollVars, callVars, panelVars>>

\* upload(...) of one of the invocations settles: App.tsx lines 53-61,
\* part_002 lines 55-66
UploadSettles ==
    /\ uploads > 0
    /\ uploads' = uploads - 1
    /\  /\ \/ \E url \in {"https://blob/a.mp4", "https://blob/b.mp4"} :
                LET st == SetOnSuccess(app, url,
                            [videoUrl |-> videoUrl, videoPreviewUrl |-> videoPreviewUrl,
                             videoBlobUrl |-> videoBlobUrl])
                IN  /\ videoUrl' = st.videoUrl
                    /\ videoPreviewUrl' = st.videoPreviewUrl
                    /\ videoBlobUrl' = st.videoBlobUrl
                    /\ error' = error
           \/ /\ error' = <<"Failed to upload video to Blob. Please try again later.">>
              /\ videoUrl' = Null
              /\ videoPreviewUrl' = IF app = "part_002" THEN Null ELSE videoPreviewUrl
              /\ videoBlobUrl' = IF app = "part_002" THEN Null ELSE videoBlobUrl
    /\ isUploadingVideo' = Finally(isUploadingVideo)
    /\ UNCHANGED <<app, isLoading, analysis, runs>>
    /\ UNCHANGED <<pollVars, callVars, panelVars>>

\* the textarea is edited (App.tsx line 150, part_002 line 183) or a script
\* file has been read (handleScriptUpload)
SetScriptText ==
    /\ \E s \in Scripts :
        /\ s # scriptText
        /\ scriptText' = s
    /\ UNCHANGED <<op, video, key, method, at, parts, requests, upstream, reply,
                   settled>>
    /\ UNCHANGED <<pollVars, raceVars, panelVars, appVars>>

\* the Analyze button is clicked while enabled (App.tsx lines 159-163 test
\* videoUrl, part_002 lines 193-197 test videoBlobUrl): App.tsx lines
\* 73-94, part_002 lines 87-106
AppHandleAnalyzeScript ==
    /\ ~isUploadingVideo
    /\ ~isLoading
    /\ ~(Trim(scriptText) = ""
         /\ ~Truthy(IF app = "App.tsx" THEN videoUrl ELSE videoBlobUrl))
    /\ IF Trim(scriptText) = "" /\ ~Truthy(videoBlobUrl)
       THEN /\ error' = <<"Please upload a video and/or provide a script or description.">>
            /\ UNCHANGED <<isLoading, analysis, runs>>
       ELSE IF app = "App.tsx" /\ ~Truthy(videoBlobUrl)
       THEN /\ error' = <<"Video has not finished uploading yet. Please wait and try again.">>
            /\ UNCHANGED <<isLoading, analysis, runs>>
       ELSE /\ isLoading' = TRUE
            /\ error' = <<>>
            /\ analysis' = NoAnalysis
            /\ runs' = Append(runs, Run("pending", "none", "pending"))
    /\ UNCHANGED <<pollVars, callVars, panelVars, appVars>>

\* analyzeScriptAndGeneratePrompts of the invocation in progress settles:
\* App.tsx lines 95-105, part_002 lines 107-117
AppAnalysisSettles ==
    /\ \E i \in 1..Len(runs), o \in AnalysisOutcomes :
        /\ runs' = Without(runs, i)
        /\ IF o.kind = "result"
           THEN /\ analysis' = Analysis(TRUE, o.value)
                /\ error' = error
                /\ UNCHANGED panelVars
           ELSE /\ analysis' = analysis
                /\ error' = <<AN_ERROR_OCCURRED, o.message>>
                /\ apiKey' = OrElse(key, "")
                /\ isGenerating' = FALSE
                /\ generatedTasks' = <<>>
                /\ panelError' = <<>>
                /\ generations' = <<>>
    /\ isLoading' = Finally(isLoading)
    /\ UNCHANGED <<pollVars, callVars, appVars>>

AppNext ==
    \/ HandleVideoUpload
    \/ UploadSettles
    \/ SetScriptText
    \/ AppHandleAnalyzeScript
    \/ AppAnalysisSettles
    \/ PanelNext

AppSpec == AppInit /\ [][AppNext]_vars

-----------------------------------------------------------------------------
(* Properties *)

\* number of status queries that have settled
Answered == IF pc = "querying" THEN queries - 1 ELSE queries

\* onProgress is omitted or returns normally
QuietCallback == onProgress # "throws"

WellFormed(r) == r.kind = "ok" /\ r.data.present

HasOutput(v, d) == IF v = "sunoService" THEN SunoHasTracks(d) ELSE WavHasUrl(d)

SuccessWithOutput(v, r) ==
    WellFormed(r) /\ r.data.status = "SUCCESS" /\ HasOutput(v, r.data)

SuccessWithoutOutput(v, r) ==
    WellFormed(r) /\ r.data.status = "SUCCESS" /\ ~HasOutput(v, r.data)

Rejected == pc = "rejected" /\ result.kind = "error"

RejectedWith(text) == Rejected /\ result.message[1] = text

TimedOut == Rejected /\ result.message[1] \in {GEN_TIMEOUT, WAV_TIMEOUT}

\* the fragment s is part of the rejection's message
MessageCarries(s) == \E k \in 1..Len(result.message) : result.message[k] = s

(* C1: in part_005, when each of the first five status queries ends in a   *)
(* non-2xx response or in an envelope code other than 200, the call is     *)
(* still pending after fewer than five of them, rejects in the fifth       *)
(* with a "Repeated API" error that carries the body (or msg) of that      *)
(* fifth response, and no sixth query is made.                             *)
C1_FiveErrorsEscalate ==
    variant = "part_005" =>
        /\ (before \in {"none", "errors"} /\ TransientError(resp)) =>
              /\ Answered <= ERROR_THRESHOLD
              /\ Answered < ERROR_THRESHOLD => pc \notin Terminal
              /\ Answered = ERROR_THRESHOLD =>
                    /\ RejectedWith(IF resp.kind = "http" THEN REPEATED_HTTP
                                    ELSE REPEATED_CODE)
                    /\ result.message[2] = resp.text
                    /\ queries = ERROR_THRESHOLD
        /\ before = "errors" => Answered <= ERROR_THRESHOLD

C1_Witness ==
    /\ variant = "part_005"
    /\ before = "errors"
    /\ queries = ERROR_THRESHOLD
    /\ RejectedWith(REPEATED_HTTP)
    /\ resp = Outcome("http", "rate limited", NoData)

(* C2: in sunoService.ts, when every status query so far ended in a        *)
(* non-2xx response or in an envelope code other than 200 and five of      *)
(* them have settled, the call has rejected, with an error that is not     *)
(* the timeout, and exactly five queries were made.                        *)
C2_SunoFiveErrorsEscalate ==
    (/\ variant = "sunoService"
     /\ before \in {"none", "errors"}
     /\ TransientError(resp)
     /\ Answered >= ERROR_THRESHOLD)
    => (Rejected /\ ~TimedOut /\ queries = ERROR_THRESHOLD)

(* C3: in both variants, after a well-formed response with status SUCCESS  *)
(* and no output data the call is rejected with the "complete but missing  *)
(* output" error (so no further query is made and nothing is returned).    *)
C3_MissingOutputRejects ==
    (QuietCallback /\ SuccessWithoutOutput(variant, resp))
    => RejectedWith(IF variant = "sunoService" THEN NO_AUDIO_DATA ELSE MISSING_URL)

(* C4: after a well-formed response with a failure-class status the call   *)
(* is rejected, not by the timeout, and when the provider sent an          *)
(* errorMessage the rejection's message carries it.                        *)
FailureClass ==
    {"CREATE_TASK_FAILED", "GENERATE_AUDIO_FAILED", "GENERATE_WAV_FAILED",
     "CALLBACK_EXCEPTION", "SENSITIVE_WORD_ERROR"}

C4_FailureStatusRejects ==
    (QuietCallback /\ WellFormed(resp) /\ resp.data.status \in FailureClass)
    => /\ Rejected
       /\ ~TimedOut
       /\ Truthy(resp.data.errorMessage) => MessageCarries(resp.data.errorMessage)

(* C5: when every earlier status query returned a well-formed response     *)
(* with a non-terminal status and the latest one returns SUCCESS with      *)
(* output, the call has resolved, no further query has been issued, and    *)
(* the tasks have status SUCCESS and the audio URLs of that response, one  *)
(* task per track (one task in part_005).                                  *)
C5_SuccessResolves ==
    (/\ QuietCallback
     /\ before \in {"none", "waiting"}
     /\ SuccessWithOutput(variant, resp))
    => /\ pc = "resolved"
       /\ queries = Answered
       /\ result.kind = "tasks"
       /\ \A k \in 1..Len(result.tasks) : result.tasks[k].status = "SUCCESS"
       /\ IF variant = "sunoService"
          THEN /\ Len(result.tasks) = Len(resp.data.sunoData)
               /\ \A k \in 1..Len(result.tasks) :
                     result.tasks[k].audio_url = resp.data.sunoData[k].audioUrl
          ELSE /\ Len(result.tasks) = 1
               /\ result.tasks[1].audio_url = resp.data.audioWavUrl

C5_Witness ==
    /\ before = "waiting"
    /\ queries = 3
    /\ pc = "resolved"
    /\ Len(result.tasks) = 1
    /\ result.tasks[1].audio_url = "https://x/a.wav"
    /\ resp.data.status = "SUCCESS"

(* C6: a call never issues more than MAX_ATTEMPTS status queries; every    *)
(* settled query, whatever its outcome, has consumed one attempt; once     *)
(* MAX_ATTEMPTS queries have settled the call has settled; and the call    *)
(* rejects with the timeout error exactly when the budget ran out without  *)
(* an iteration resolving or rejecting.                                    *)
C6_BoundedAttempts ==
    /\ queries <= MAX_ATTEMPTS(variant)
    /\ pc \notin Terminal => (attempt = Answered /\ attempt < MAX_ATTEMPTS(variant))
    /\ Answered = MAX_ATTEMPTS(variant) => pc \in Terminal
    /\ pc = "resolved" => result.kind = "tasks"
    /\ pc = "rejected" => result.kind = "error"
    /\ TimedOut <=> (pc \in Terminal /\ attempt = MAX_ATTEMPTS(variant))
    /\ TimedOut => queries = MAX_ATTEMPTS(variant)

C6_Witness ==
    /\ TimedOut
    /\ queries = MAX_ATTEMPTS(variant)
    /\ resp.kind = "net"
    /\ before = "other"

(* C7: when the attempt budget runs out, the rejection's message carries   *)
(* the status of the latest well-formed response that had one.             *)
C7_TimeoutNamesLastStatus ==
    (QuietCallback /\ TimedOut /\ observed # Undefined) => MessageCarries(observed)

(* C8: from every state that a call without onProgress reaches, an         *)
(* iteration settles or continues the call in the same way, with the same  *)
(* result, for every way of passing onProgress (omitted, returning,        *)
(* throwing).                                                              *)
C8_CallbackDoesNotInterfere ==
    [][(onProgress = "omitted" /\ pc = "querying") =>
          \A cb \in CbModes :
             LET alt == Iterate(variant, cb, attempt, consecutiveErrors,
                                lastKnownStatus, resp')
             IN  alt.pc = pc' /\ alt.result = result']_vars

(* C9: every task of a resolved call has status SUCCESS exactly when its   *)
(* audio URL is present and non-empty.                                     *)
C9_SuccessIffAudioUrl ==
    result.kind = "tasks" =>
        \A k \in 1..Len(result.tasks) :
            (result.tasks[k].status = "SUCCESS") <=> Truthy(result.tasks[k].audio_url)

(* C10: after a well-formed response, a status that contains FAILED,       *)
(* ERROR or EXCEPTION has rejected the call with the failure error; the    *)
(* status SUCCESS (with output) has resolved it; a status that contains    *)
(* none of FAILED, ERROR, EXCEPTION and SUCCESS has left it polling, or    *)
(* timed out when it was the last attempt.  (The lower-case spelling and   *)
(* the statuses that end in _SUCCESS are left out: the sentence does not   *)
(* say how they count.)                                                    *)
C10_StatusClassification ==
    (QuietCallback /\ HasStatus(resp)) =>
        LET s == resp.data.status
        IN  /\ FailureLike(s) =>
                  RejectedWith(IF variant = "sunoService" THEN GEN_FAILED ELSE TASK_FAILED)
            /\ SuccessWithOutput(variant, resp) => pc = "resolved"
            /\ (~FailureLike(s) /\ ~Includes(s, "SUCCESS") /\ s # "success") =>
                  (pc \notin Terminal \/ TimedOut)

(* C11: in part_005 an iteration that gets a response with HTTP 2xx and    *)
(* envelope code 200 leaves consecutiveErrors at 0, one that gets a        *)
(* non-2xx response or another envelope code adds one to it, one whose     *)
(* fetch rejects leaves it alone, and a "Repeated API" rejection happens   *)
(* only in an iteration that brings it to 5: so only five such errors      *)
(* with no code-200 response between them escalate (an error that leaves   *)
(* it below 5 ends the call only by using up the last attempt).            *)
C11_WellFormedResets ==
    [][(variant = "part_005" /\ pc = "querying") =>
          /\ resp'.kind = "ok" => consecutiveErrors' = 0
          /\ TransientError(resp') => consecutiveErrors' = consecutiveErrors + 1
          /\ resp'.kind = "net" => consecutiveErrors' = consecutiveErrors
          /\ (Rejected' /\ result'.message[1] \in {REPEATED_HTTP, REPEATED_CODE})
                => (TransientError(resp') /\ consecutiveErrors' = ERROR_THRESHOLD)
          /\ (/\ TransientError(resp')
              /\ consecutiveErrors' < ERROR_THRESHOLD
              /\ pc' \in Terminal) => TimedOut']_vars

\* four errors, a PENDING, four more errors: nine queries and still polling
C11_Witness ==
    /\ variant = "part_005"
    /\ pc = "sleeping"
    /\ queries = 2 * ERROR_THRESHOLD - 1
    /\ consecutiveErrors = ERROR_THRESHOLD - 1
    /\ TransientError(resp)
    /\ observed = "PENDING"

(* C12: when every status query so far ended in a network exception and    *)
(* five of them have settled, the call has rejected, with an error that    *)
(* is not the timeout, and exactly five queries were made.                 *)
C12_NetworkErrorsEscalate ==
    (/\ before \in {"none", "network"}
     /\ resp.kind = "net"
     /\ Answered >= ERROR_THRESHOLD)
    => (Rejected /\ ~TimedOut /\ queries = ERROR_THRESHOLD)

-----------------------------------------------------------------------------
(* Properties of the calls *)

\* the call has issued no network request and the handler has sent no
\* request of its own
NoRequest == requests = <<>>

\* the script is empty or spaces and there is no video
BlankInput == scriptText \in {"", "   "} /\ video \in {Undefined, Null}

\* the key is missing or empty
NoKey == key \in {Undefined, Null, ""}

(* C13 as stated: with a blank script (empty or spaces) and no video       *)
(* (null or undefined), both analysis functions reject with the            *)
(* validation error without a network request, and the handler, given      *)
(* these inputs in a POST, answers 400 without fetching the video or       *)
(* calling the model.                                                      *)
C13_BlankInputRejected ==
    BlankInput =>
        /\ op \in AnalysisClients =>
              /\ NoRequest
              /\ at \in {"entry", "done"}
              /\ at = "done" => settled = Reject(VALIDATION)
        /\ (op = "gemini-analyze" /\ method = "POST") =>
              /\ NoRequest
              /\ at \in {"atHandler", "done"}
              /\ at = "done" => reply.status = 400

(* C13 amended: as above, but the handler answers 400 only when            *)
(* GEMINI_API_KEY is set; when it is not, the handler answers 500 (the     *)
(* key is tested before the inputs), still without any request.            *)
C13_BlankInputRejectedWithKey ==
    BlankInput =>
        /\ op \in AnalysisClients =>
              /\ NoRequest
              /\ at \in {"entry", "done"}
              /\ at = "done" => settled = Reject(VALIDATION)
        /\ (op = "gemini-analyze" /\ method = "POST") =>
              /\ NoRequest
              /\ at \in {"atHandler", "done"}
              /\ at = "done" =>
                    reply = IF NoKey
                            THEN Reply(500, KEY_MISSING, <<>>, NoFields)
                            ELSE Reply(400, VALIDATION, <<>>, NoFields)

C13_Witness ==
    /\ op = "gemini-analyze"
    /\ method = "POST"
    /\ scriptText = "   "
    /\ video = Null
    /\ at = "done"
    /\ reply.status = 400

(* C14 as stated: when the key is missing or empty, the direct analysis    *)
(* function and generateMusic reject with their configuration error and    *)
(* no network request is ever issued.                                      *)
C14_MissingKeyRejected ==
    (NoKey /\ op \in {"geminiService"} \cup MusicCalls) =>
        /\ NoRequest
        /\ at \in {"entry", "done"}
        /\ at = "done" =>
              settled = Reject(IF op = "geminiService" THEN KEY_MISSING
                               ELSE SUNO_KEY_REQUIRED)

(* C14 amended: when the key is missing or empty, generateMusic rejects    *)
(* with its configuration error, and the direct analysis function rejects  *)
(* with the configuration error if it was given a script or a video and    *)
(* with the validation error if not; no network request is ever issued.    *)
C14_MissingKeyRejectedAfterValidation ==
    (NoKey /\ op \in {"geminiService"} \cup MusicCalls) =>
        /\ NoRequest
        /\ at \in {"entry", "done"}
        /\ at = "done" =>
              settled = Reject(IF op \in MusicCalls THEN SUNO_KEY_REQUIRED
                               ELSE IF BlankInput THEN VALIDATION
                               ELSE KEY_MISSING)

C14_Witness ==
    /\ op = "geminiService"
    /\ key = ""
    /\ scriptText = "A lone astronaut drifts."
    /\ video = "clip.webm"
    /\ at = "done"
    /\ settled = Reject(KEY_MISSING)

(* C15: in handleAnalyzeScript of part_003, of the analysis and the timer  *)
(* of an invocation the one that settles first decides alone: the timer    *)
(* firing first shows the timeout error, clears isLoading and leaves       *)
(* analysis as it is; the analysis settling first sets analysis (or shows  *)
(* its error) and clears isLoading; and the settling of the other one,     *)
(* later, changes neither isLoading nor error nor analysis.                *)
C15_FirstSettledDecides ==
    [][\A i \in 1..Len(runs) :
          /\ (runs[i].race = "settled" /\ runs'[i] # runs[i]) =>
                UNCHANGED <<isLoading, error, analysis>>
          /\ (/\ runs[i].race = "pending"
              /\ runs'[i].timeoutPromise = "rejected") =>
                /\ error' = <<AN_ERROR_OCCURRED, ANALYSIS_TIMEOUT>>
                /\ ~isLoading'
                /\ analysis' = analysis
          /\ (/\ runs[i].race = "pending"
              /\ runs'[i].analysisPromise = "fulfilled") =>
                /\ analysis'.set
                /\ ~isLoading'
                /\ error' = error
          /\ (/\ runs[i].race = "pending"
              /\ runs'[i].analysisPromise = "rejected") =>
                /\ error'[1] = AN_ERROR_OCCURRED
                /\ error'[2] # ANALYSIS_TIMEOUT
                /\ ~isLoading'
                /\ analysis' = analysis]_vars

\* the timer fired first and the analysis was fulfilled after it
C15_Witness ==
    /\ Len(runs) = 1
    /\ runs[1] = Run("fulfilled", "rejected", "settled")
    /\ error = <<AN_ERROR_OCCURRED, ANALYSIS_TIMEOUT>>
    /\ analysis = NoAnalysis
    /\ ~isLoading

\* the model answered with a text and the call has settled
AnsweredText == at = "done" /\ upstream.kind = "text"

\* the object with the four fields stands at positions i..i+2 of the text
ObjectAt(text, i) == i + 2 <= Len(text) /\ SubSeq(text, i, i + 2) = <<"{", "F", "}">>

BraceSpan(text) ==
    IF \E i, j \in 1..Len(text) : i < j /\ text[i] = "{" /\ text[j] = "}"
    THEN LET i == CHOOSE i \in 1..Len(text) :
                     text[i] = "{" /\ \A k \in 1..(i - 1) : text[k] # "{"
             j == CHOOSE j \in 1..Len(text) :
                     text[j] = "}" /\ \A k \in (j + 1)..Len(text) : text[k] # "}"
         IN  SubSeq(text, i, j)
    ELSE text

(* C17: when the model's answer is a non-empty text whose stretch from     *)
(* the first opening to the last closing brace (the whole text, when it    *)
(* has none) is not JSON, both analysis functions reject with the parse    *)
(* error, and the error carries the text of the answer.                    *)
C17_ParseErrorCarriesText ==
    (/\ op \in AnalysisClients
     /\ AnsweredText
     /\ upstream.text # <<>>
     /\ ~JSONParse(BraceSpan(upstream.text)).ok)
    => /\ settled.kind = "error"
       /\ PARSE_FAILED \in {settled.message, settled.detail}
       /\ settled.raw = upstream.text

(* C18: the value an analysis function resolves with has the four fields   *)
(* summary, mood, title and music_prompt, none of them undefined.          *)
C18_FourFieldsPresent ==
    (op \in AnalysisClients /\ settled.kind = "result") =>
        /\ settled.value.summary # Undefined
        /\ settled.value.mood # Undefined
        /\ settled.value.title # Undefined
        /\ settled.value.music_prompt # Undefined

\* the parts with the member text, and the others
TextParts == SelectSeq(parts, LAMBDA p : p.member = "text")

MediaParts == SelectSeq(parts, LAMBDA p : p.member # "text")

(* C19: the parts of the request to the model are one media part exactly   *)
(* when there is a video, then a text part that holds the instruction      *)
(* alone, then a text part that holds the script (the placeholder          *)
(* sentence when the script is blank): two text parts in every request.    *)
C19_InstructionAndScriptParts ==
    parts # <<>> =>
        /\ Len(MediaParts) = IF video \in {Undefined, Null} THEN 0 ELSE 1
        /\ parts = MediaParts \o TextParts
        /\ Len(TextParts) = 2
        /\ Len(TextParts[1].text) = 1
        /\ TextParts[2].text =
              IF scriptText \in {"", "   "}
              THEN <<"No script was provided. Infer everything from the video only.">>
              ELSE <<scriptText>>

(* C20: for the text the model answered with, the direct function          *)
(* settles as the proxy function would on the same answer, and the proxy   *)
(* function as the direct one would: both resolve, with equal values, or   *)
(* both reject.                                                            *)
C20_ModesAgree ==
    (op \in AnalysisClients /\ AnsweredText) =>
        LET other == IF op = "geminiService"
                     THEN ProxyReceive(HandlerReceive(upstream))
                     ELSE DirectReceive(upstream)
        IN  /\ settled.kind = other.kind
            /\ settled.kind = "result" => settled.value = other.value

\* generateMusic was called with a key and the fetch has settled
MusicAnswered == op \in MusicCalls /\ at = "done" /\ upstream.kind # "none"

(* C21: a generateMusic call that is given a key issues one POST, when it  *)
(* is entered, and no other request; it resolves, with the task id,        *)
(* exactly when the response is ok and its code is 200; it rejects with    *)
(* a request error when fetch rejects or the response is not ok, and       *)
(* with "Suno API Error" carrying msg when the response is ok and its      *)
(* code is not 200; a rejected call returns no task id.                    *)
C21_OnePostAndItsOutcome ==
    (op \in MusicCalls /\ ~NoKey) =>
        /\ at = "entry" => requests = <<>>
        /\ at # "entry" => requests = <<"generate">>
        /\ at \in {"entry", "awaitSuno", "done"}
        /\ MusicAnswered =>
              /\ (settled.kind = "result") <=> (upstream.kind = "ok")
              /\ settled.kind = "result" => settled.taskId = "task-1"
              /\ settled.kind # "result" =>
                    /\ settled.kind = "error"
                    /\ settled.taskId = ""
              /\ upstream.kind = "net" =>
                    NETWORK_ERROR \in {settled.message, settled.detail}
              /\ upstream.kind = "http" =>
                    /\ settled.message = "Suno API Request Failed"
                    /\ settled.status = upstream.status
              /\ upstream.kind = "code" =>
                    /\ settled.message = "Suno API Error"
                    /\ settled.raw = upstream.text

C21_Witness ==
    /\ op = "sunoService.generateMusic"
    /\ MusicAnswered
    /\ upstream.kind = "code"
    /\ settled.message = "Suno API Error"
    /\ requests = <<"generate">>

C23_SleepBeforeEveryQuery ==
    [][/\ queries' # queries =>
            (pc = "sleeping" /\ pc' = "querying" /\ queries' = queries + 1)
       /\ pc = "querying" => (queries' = queries /\ pc' \in Terminal \cup {"sleeping"})
       /\ pc' = "sleeping" => queries' = attempt'
       /\ pc' = "querying" => queries' = attempt' + 1
       /\ pc' \in Terminal => queries' \in {attempt', attempt' + 1}]_vars

C23_Witness ==
    /\ pc = "querying"
    /\ TransientError(resp)
    /\ attempt = 2
    /\ queries = 3

\* the status vocabulary of the endpoint a variant polls
Vocabulary(v) == IF v = "sunoService" THEN SunoVocabulary ELSE WavVocabulary

\* a well-formed response whose status is missing or outside the vocabulary
UnknownStatus(v, r) == WellFormed(r) /\ r.data.status \notin Vocabulary(v)

C24_PollOnlyAfterSubmission ==
    [][/\ \A i \in 1..Len(generations') :
            LET g == generations'[i]
            IN  /\ g.stage = "submitting" => g.polled = {}
                /\ g.polled # {} =>
                      /\ g.stage = "polling"
                      /\ g.taskId = "task-1"
                      /\ g.polled = {g.taskId}
       /\ \A i \in 1..Len(generations) :
            (/\ generations[i].stage = "submitting"
             /\ Len(generations') < Len(generations)
             /\ (isLoading' \/ analysis' # NoAnalysis))      \* still mounted
            => (generations[i].polled = {} /\ panelError' # <<>>)]_vars

\* a generation was submitted, got its task id and has polled for it
C24_Witness ==
    /\ Len(generations) = 1
    /\ generations[1].stage = "polling"
    /\ generations[1].taskId = "task-1"
    /\ generations[1].polled = {"task-1"}
    /\ isGenerating
    /\ panelError = <<>>

(* C27: in the App of src/App.tsx, when no upload and no analysis is in    *)
(* progress and the script is not blank or an upload has succeeded (so     *)
(* videoUrl is set), a click on Analyze is not turned away with one of the *)
(* two input errors but starts an analysis: no step taken from such a      *)
(* state puts one of those errors on display.                              *)
C27_AnalyzeStartsWhenInputPresent ==
    [][(/\ app = "App.tsx"
        /\ ~isUploadingVideo
        /\ ~isLoading
        /\ (Trim(scriptText) # "" \/ videoUrl # Null))
       => ~(/\ error' # error
            /\ error' \in
                 {<<"Please upload a video and/or provide a script or description.">>,
                  <<"Video has not finished uploading yet. Please wait and try again.">>})]_vars

(* C28: in the App of part_002 the three URL states are equal in every     *)
(* state: a handleVideoUpload whose upload succeeds leaves all three at    *)
(* the URL of a blob, one whose upload fails leaves all three null, and    *)
(* one that turns an oversized file away leaves all three as they were,    *)
(* whatever other uploads are in flight.                                   *)
C28_VideoUrlsInSync ==
    [][app = "part_002" =>
        /\ videoUrl' = videoPreviewUrl'
        /\ videoPreviewUrl' = videoBlobUrl'
        /\ uploads' < uploads =>
              \/ /\ videoBlobUrl' # Null
                 /\ error' = error
              \/ /\ videoBlobUrl' = Null
                 /\ error' = <<"Failed to upload video to Blob. Please try again later.">>
        /\ (error' = <<"The video is too large">> /\ uploads' = uploads) =>
              <<videoUrl', videoPreviewUrl', videoBlobUrl'>> =
              <<videoUrl, videoPreviewUrl, videoBlobUrl>>]_vars

\* one upload has succeeded while another is still in flight
C28_Witness ==
    /\ app = "part_002"
    /\ uploads = 1
    /\ ~isUploadingVideo
    /\ videoUrl = "https://blob/b.mp4"
    /\ videoPreviewUrl = "https://blob/b.mp4"
    /\ videoBlobUrl = "https://blob/b.mp4"

(* C29: the step in which a handleGenerate ends (its submission fails, or  *)
(* its poll resolves, rejects or times out) leaves isGenerating false; the *)
(* step in which a handleAnalyzeScript ends (the analysis resolves or      *)
(* rejects, or the timer of part_003 wins the race) leaves isLoading       *)
(* false; the step in which a started upload settles, with a blob or with  *)
(* an error, leaves isUploadingVideo false.                                *)
C29_BusyFlagsCleared ==
    [][/\ (/\ Len(generations') < Len(generations)
            /\ (isLoading' \/ analysis' # NoAnalysis))       \* still mounted
           => ~isGenerating'
       /\ Len(runs') < Len(runs) => ~isLoading'
       /\ \A i \in 1..Len(runs) :                     \* part_003, with its timer
            (/\ i <= Len(runs')
             /\ runs[i].race = "pending"
             /\ runs'[i].race # "pending") => ~isLoading'
       /\ uploads' < uploads => ~isUploadingVideo']_vars

\* an analysis has succeeded, a generation has timed out, an upload has
\* failed, and no flag is left set
C29_Witness ==
    /\ app = "part_002"
    /\ runs = <<>>
    /\ analysis = Analysis(TRUE, FourFields)
    /\ ~isLoading
    /\ generations = <<>>
    /\ panelError = SunoTimeout("")
    /\ ~isGenerating
    /\ uploads = 0
    /\ error = <<"Failed to upload video to Blob. Please try again later.">>
    /\ ~isUploadingVideo

(* C30: in one panel at most one handleGenerate is between its submission  *)
(* and its end, and isGenerating is true exactly while one is; a new       *)
(* submission starts only from a state in which isGenerating is false, no  *)
(* generated tasks are displayed and the API key is not empty.             *)
C30_OneGenerationInFlight ==
    [][/\ Len(generations') <= 1
       /\ isGenerating' <=> generations' # <<>>
       /\ Len(generations') > Len(generations) =>
            /\ ~isGenerating
            /\ Len(generatedTasks) = 0
            /\ apiKey # ""
            /\ generations = <<>>]_vars

\* a generation has been submitted after an earlier one ended with tasks
\* and the key was entered by hand
C30_Witness ==
    /\ key = Undefined
    /\ apiKey = "sk-1"
    /\ Len(generations) = 1
    /\ generations[1].stage = "submitting"
    /\ isGenerating
    /\ panelError = <<>>
    /\ generatedTasks = <<>>
=============================================================================
